---- MODULE Spec2Model ----
(***************************************************************************)
(* A model of todo.py: the JSON task store (load_tasks / save_tasks), the  *)
(* task operations (add, done, delete, remark, doneall, clear, list), the  *)
(* dispatch of main() and the batch interpreter process_batch_commands.    *)
(*                                                                         *)
(* Text is modelled as a sequence of one-character strings, so that the    *)
(* string operations of the batch interpreter (split, strip, slicing,      *)
(* lower, int) are computed the way Python computes them.  The text of    *)
(* todo.json is written and parsed character by character (json.dump,      *)
(* json.load), and two concurrent invocations are followed through their   *)
(* load, open and write steps.                                             *)
(***************************************************************************)
EXTENDS Integers, Sequences, FiniteSets, TLC

\* ------------------------------------------------------------------ bounds
\* Most tasks a store may hold, and the largest id add may assign, in the model.
MaxTasks == 2
MaxId == 3

\* The same two bounds in the specification that follows the ids (SpecIds).
MaxTasksIds == 3
MaxIdIds == 4

\* ------------------------------------------------------------ Python text
\* str.isspace for the characters of the model's alphabet.
IsSpace(c) == c \in {" ", "\t"}

RECURSIVE LStrip(_)
\* str.lstrip(): drop leading whitespace.
LStrip(s) ==
    IF s = <<>> THEN <<>>
    ELSE IF IsSpace(Head(s)) THEN LStrip(Tail(s)) ELSE s

RECURSIVE RStrip(_)
\* str.rstrip(): drop trailing whitespace.
RStrip(s) ==
    IF s = <<>> THEN <<>>
    ELSE IF IsSpace(s[Len(s)]) THEN RStrip(SubSeq(s, 1, Len(s) - 1)) ELSE s

\* str.strip(): drop whitespace at both ends.
Strip(s) == RStrip(LStrip(s))

RECURSIVE LStripChars(_, _)
LStripChars(s, cs) ==
    IF s = <<>> THEN <<>>
    ELSE IF Head(s) \in cs THEN LStripChars(Tail(s), cs) ELSE s

RECURSIVE RStripChars(_, _)
RStripChars(s, cs) ==
    IF s = <<>> THEN <<>>
    ELSE IF s[Len(s)] \in cs THEN RStripChars(SubSeq(s, 1, Len(s) - 1), cs) ELSE s

\* The quote characters of .strip("'\"").
QuoteChars == {"'", "\""}

\* Quote characters dropped at the front only.
StripQuotesLeading(s) == LStripChars(s, QuoteChars)

\* str.strip("'\""): drop quote characters at both ends.
StripQuotes(s) == RStripChars(LStripChars(s, QuoteChars), QuoteChars)

\* s[n:] for n >= 0.
SliceFrom(s, n) == IF n >= Len(s) THEN <<>> ELSE SubSeq(s, n + 1, Len(s))

RECURSIVE SplitAcc(_, _, _)
SplitAcc(s, sep, cur) ==
    IF s = <<>> THEN <<cur>>
    ELSE IF Head(s) = sep THEN <<cur>> \o SplitAcc(Tail(s), sep, <<>>)
    ELSE SplitAcc(Tail(s), sep, Append(cur, Head(s)))

\* str.split(sep) for a one-character separator: empty pieces are kept.
SplitOn(s, sep) == SplitAcc(s, sep, <<>>)

RECURSIVE WordsAcc(_, _)
WordsAcc(s, cur) ==
    IF s = <<>> THEN (IF cur = <<>> THEN <<>> ELSE <<cur>>)
    ELSE IF IsSpace(Head(s))
         THEN (IF cur = <<>> THEN <<>> ELSE <<cur>>) \o WordsAcc(Tail(s), <<>>)
         ELSE WordsAcc(Tail(s), Append(cur, Head(s)))

\* str.split() without a separator: the words between runs of whitespace.
SplitWords(s) == WordsAcc(s, <<>>)

RECURSIVE JoinWith(_, _)
\* sep.join(words)
JoinWith(words, sep) ==
    IF words = <<>> THEN <<>>
    ELSE IF Len(words) = 1 THEN words[1]
    ELSE words[1] \o sep \o JoinWith(Tail(words), sep)

UpperLetters == <<"A", "B", "C", "D", "E", "F", "G", "H", "I", "J", "K", "L", "M",
                  "N", "O", "P", "Q", "R", "S", "T", "U", "V", "W", "X", "Y", "Z">>
LowerLetters == <<"a", "b", "c", "d", "e", "f", "g", "h", "i", "j", "k", "l", "m",
                  "n", "o", "p", "q", "r", "s", "t", "u", "v", "w", "x", "y", "z">>

\* The lower-case letter of each upper-case letter.
LowerOf ==
    [c \in {UpperLetters[i] : i \in 1..Len(UpperLetters)} |->
        LowerLetters[CHOOSE i \in 1..Len(UpperLetters) : UpperLetters[i] = c]]

LowerChar(c) == IF c \in DOMAIN LowerOf THEN LowerOf[c] ELSE c

\* str.lower()
Lower(s) == [i \in 1..Len(s) |-> LowerChar(s[i])]

Digits == <<"0", "1", "2", "3", "4", "5", "6", "7", "8", "9">>

\* The value of each decimal digit.
DigitOf == [c \in {Digits[i] : i \in 1..Len(Digits)} |->
               (CHOOSE i \in 1..Len(Digits) : Digits[i] = c) - 1]

IsDigit(c) == c \in DOMAIN DigitOf

DigitValue(c) == DigitOf[c]

RECURSIVE DigitsValue(_, _)
DigitsValue(s, acc) ==
    IF s = <<>> THEN acc ELSE DigitsValue(Tail(s), acc * 10 + DigitValue(Head(s)))

\* A Python value given as a task id: an int (from argparse, type=int) or a str
\* (a word of a batch sub-command).
IntValue(n) == [type |-> "int", int |-> n, str |-> <<>>]
StrValue(s) == [type |-> "str", int |-> 0, str |-> s]

\* int(x): an int is returned as it is; a str is stripped of whitespace and must
\* be an optional sign followed by decimal digits, else ValueError (ok = FALSE).
PyInt(x) ==
    IF x.type = "int" THEN [ok |-> TRUE, val |-> x.int]
    ELSE LET t == Strip(x.str)
             signed == t # <<>> /\ Head(t) \in {"+", "-"}
             body == IF signed THEN Tail(t) ELSE t
         IN  IF body # <<>> /\ \A i \in 1..Len(body) : IsDigit(body[i])
             THEN [ok |-> TRUE,
                   val |-> IF signed /\ Head(t) = "-"
                           THEN 0 - DigitsValue(body, 0) ELSE DigitsValue(body, 0)]
             ELSE [ok |-> FALSE, val |-> 0]

\* ------------------------------------------------------------------ store
\* The persisted file todo.json.  kind: "absent" (no file), "corrupt" (text that
\* is not JSON), "foreign" (valid JSON that is no task list: the text [0]) or
\* "tasks" (a list of task objects, as json.dump writes it).
VARIABLE file

\* The running invocation: "idle" between invocations, "batch" inside the loop of
\* process_batch_commands; queue holds the sub-commands not yet executed, total
\* is len(commands).
VARIABLES pc, queue, total

\* What the last executed command printed: the command, its outcome, the id it
\* was given or assigned and the count it reported.
VARIABLE out

\* History: the ids removed by a successful delete so far (kept when track
\* names it); track is the set of the histories that a specification keeps.
VARIABLES deleted, track

\* History: the ids under which the store has held a completed task so far
\* (kept when track names it).
VARIABLE completedIds

\* The direct invocations that correspond to the queued sub-commands, and the
\* store and outcome those direct invocations produce.
VARIABLES plan, direct

\* The characters of todo.json, followed by the specification of the
\* serialisation only (SpecJson); the other specifications follow the file by
\* its value, file.
VARIABLE disk

\* The concurrent invocations of the specification of two processes (SpecRace):
\* what each has loaded and is about to save, and the order of their writes.
VARIABLE procs

vars == <<file, pc, queue, total, out, deleted, track, completedIds, plan, direct,
          disk, procs>>

\* No file on disk; a file of the given characters.
NoDisk == [exists |-> FALSE, text |-> <<>>]
DiskText(text) == [exists |-> TRUE, text |-> text]

\* No concurrent invocation is running.
NoProcs == [run |-> <<>>, writers |-> <<>>, torn |-> FALSE]

Task(id, description) ==
    [id |-> id, description |-> description, completed |-> FALSE, remark |-> <<>>]

AbsentFile == [kind |-> "absent", tasks |-> <<>>]
CorruptFile == [kind |-> "corrupt", tasks |-> <<>>]
ForeignFile == [kind |-> "foreign", tasks |-> <<>>]

\* The file just after open(DATA_FILE, 'w'): it exists and holds no character.
TruncatedFile == [kind |-> "empty", tasks |-> <<>>]

\* load_tasks without its except json.JSONDecodeError clause: text that is not
\* JSON makes the operation that loads it raise.
load_tasks_strict(f) ==
    IF f.kind = "tasks" THEN [foreign |-> FALSE, list |-> f.tasks]
    ELSE IF f.kind \in {"foreign", "corrupt"} THEN [foreign |-> TRUE, list |-> <<>>]
    ELSE [foreign |-> FALSE, list |-> <<>>]

\* load_tasks(): [] when the file is absent or is not JSON, else whatever JSON
\* value the file holds.  foreign marks the value [0].
load_tasks(f) ==
    IF f.kind = "tasks" THEN [foreign |-> FALSE, list |-> f.tasks]
    ELSE IF f.kind = "foreign" THEN [foreign |-> TRUE, list |-> <<>>]
    ELSE [foreign |-> FALSE, list |-> <<>>]

\* save_tasks(tasks): the file is rewritten whole.
save_tasks(tasks) == [kind |-> "tasks", tasks |-> tasks]

\* What an operation returns to its caller: the file it leaves, the outcome it
\* printed, and the exception it raised ("none" when it returned).
Result(f, status, id, count, exc) ==
    [file |-> f, status |-> status, id |-> id, count |-> count, exc |-> exc,
     text |-> <<>>]

\* The first position of tasks whose id is target, 0 when there is none
\* (the for ... break loops of complete_task and remark_task).
FirstIndex(tasks, target) ==
    IF \E i \in 1..Len(tasks) : tasks[i].id = target
    THEN CHOOSE i \in 1..Len(tasks) :
            /\ tasks[i].id = target
            /\ \A j \in 1..(i - 1) : tasks[j].id # target
    ELSE 0

\* new_id counted from the number of tasks.
NewIdByCount(tasks) == Len(tasks) + 1

\* new_id taken from the first task instead of the last.
NewIdFromFirst(tasks) == IF tasks # <<>> THEN tasks[1].id + 1 ELSE 1

\* new_id of add_task
NewId(tasks) == IF tasks # <<>> THEN tasks[Len(tasks)].id + 1 ELSE 1

\* add_task without its save_tasks call.
add_task_unsaved(description, f) ==
    LET data == load_tasks(f)
        tasks == data.list
        new_id == NewId(tasks)
    IN  [(IF data.foreign THEN Result(f, "raised", 0, 0, "TypeError")
          ELSE Result(f, "added", new_id, 0, "none"))
         EXCEPT !.text = description]

\* add_task putting the new task in front of the list.
add_task_prepending(description, f) ==
    LET data == load_tasks(f)
        tasks == data.list
        new_id == NewId(tasks)
    IN  [(IF data.foreign THEN Result(f, "raised", 0, 0, "TypeError")
          ELSE Result(save_tasks(<<Task(new_id, description)>> \o tasks),
                      "added", new_id, 0, "none"))
         EXCEPT !.text = description]

add_task(description, f) ==
    LET data == load_tasks(f)
        tasks == data.list
        new_id == NewId(tasks)
    IN  [(IF data.foreign THEN Result(f, "raised", 0, 0, "TypeError")
          ELSE Result(save_tasks(Append(tasks, Task(new_id, description))),
                      "added", new_id, 0, "none"))
         EXCEPT !.text = description]

Pending(t) == ~t.completed
Completed(t) == t.completed

list_tasks(status, f) ==
    LET data == load_tasks(f)
        tasks == data.list
        filtered == IF status = "pending" THEN SelectSeq(tasks, Pending)
                    ELSE IF status = "done" THEN SelectSeq(tasks, Completed)
                    ELSE tasks
    IN  IF data.foreign THEN Result(f, "raised", 0, 0, "TypeError")
        ELSE IF tasks = <<>> THEN Result(f, "list_empty", 0, 0, "none")
        ELSE IF filtered = <<>> THEN Result(f, "list_no_match", 0, 0, "none")
        ELSE Result(f, "listed", 0, Len(filtered), "none")

\* complete_task without the test of task['completed'].
complete_task_unchecked(task_id, f) ==
    LET parsed == PyInt(task_id)
        target_id == parsed.val
        data == load_tasks(f)
        tasks == data.list
        i == FirstIndex(tasks, target_id)
    IN  IF ~parsed.ok THEN Result(f, "invalid_id", 0, 0, "none")
        ELSE IF data.foreign THEN Result(f, "raised", target_id, 0, "TypeError")
        ELSE IF i = 0 THEN Result(f, "not_found", target_id, 0, "none")
        ELSE Result(save_tasks([tasks EXCEPT ![i].completed = TRUE]),
                    "completed", target_id, 0, "none")

complete_task(task_id, f) ==
    LET parsed == PyInt(task_id)
        target_id == parsed.val
        data == load_tasks(f)
        tasks == data.list
        i == FirstIndex(tasks, target_id)
    IN  IF ~parsed.ok THEN Result(f, "invalid_id", 0, 0, "none")
        ELSE IF data.foreign THEN Result(f, "raised", target_id, 0, "TypeError")
        ELSE IF i = 0 THEN Result(f, "not_found", target_id, 0, "none")
        ELSE IF tasks[i].completed THEN Result(f, "already_done", target_id, 0, "none")
        ELSE Result(save_tasks([tasks EXCEPT ![i].completed = TRUE]),
                    "completed", target_id, 0, "none")

\* delete_task numbering the tasks that are left from 1 again.
delete_task_renumbering(task_id, f) ==
    LET parsed == PyInt(task_id)
        target_id == parsed.val
        data == load_tasks(f)
        tasks == data.list
        Other(t) == t.id # target_id
        kept == SelectSeq(tasks, Other)
    IN  IF ~parsed.ok THEN Result(f, "invalid_id", 0, 0, "none")
        ELSE IF data.foreign THEN Result(f, "raised", target_id, 0, "TypeError")
        ELSE IF Len(kept) < Len(tasks)
             THEN Result(save_tasks([i \in 1..Len(kept) |-> [kept[i] EXCEPT !.id = i]]),
                         "deleted", target_id, 0, "none")
        ELSE Result(f, "not_found", target_id, 0, "none")

\* delete_task saving the list whether or not a task was removed.
delete_task_saving(task_id, f) ==
    LET parsed == PyInt(task_id)
        target_id == parsed.val
        data == load_tasks(f)
        tasks == data.list
        Other(t) == t.id # target_id
        kept == SelectSeq(tasks, Other)
    IN  IF ~parsed.ok THEN Result(f, "invalid_id", 0, 0, "none")
        ELSE IF data.foreign THEN Result(f, "raised", target_id, 0, "TypeError")
        ELSE Result(save_tasks(kept),
                    IF Len(kept) < Len(tasks) THEN "deleted" ELSE "not_found",
                    target_id, 0, "none")

delete_task(task_id, f) ==
    LET parsed == PyInt(task_id)
        target_id == parsed.val
        data == load_tasks(f)
        tasks == data.list
        Other(t) == t.id # target_id
        kept == SelectSeq(tasks, Other)
    IN  IF ~parsed.ok THEN Result(f, "invalid_id", 0, 0, "none")
        ELSE IF data.foreign THEN Result(f, "raised", target_id, 0, "TypeError")
        ELSE IF Len(kept) < Len(tasks)
             THEN Result(save_tasks(kept), "deleted", target_id, 0, "none")
        ELSE Result(f, "not_found", target_id, 0, "none")

\* remark_task marking the task it annotates as pending again.
remark_task_reopening(task_id, remark_text, f) ==
    LET parsed == PyInt(task_id)
        target_id == parsed.val
        data == load_tasks(f)
        tasks == data.list
        remark_string == JoinWith(remark_text, <<" ">>)
        i == FirstIndex(tasks, target_id)
    IN  IF ~parsed.ok THEN Result(f, "invalid_id", 0, 0, "none")
        ELSE [(IF data.foreign THEN Result(f, "raised", target_id, 0, "TypeError")
               ELSE IF i = 0 THEN Result(f, "not_found", target_id, 0, "none")
               ELSE Result(save_tasks([tasks EXCEPT ![i].remark = remark_string,
                                                    ![i].completed = FALSE]),
                           "remarked", target_id, 0, "none"))
              EXCEPT !.text = remark_string]

remark_task(task_id, remark_text, f) ==
    LET parsed == PyInt(task_id)
        target_id == parsed.val
        data == load_tasks(f)
        tasks == data.list
        remark_string == JoinWith(remark_text, <<" ">>)
        i == FirstIndex(tasks, target_id)
    IN  IF ~parsed.ok THEN Result(f, "invalid_id", 0, 0, "none")
        ELSE [(IF data.foreign THEN Result(f, "raised", target_id, 0, "TypeError")
               ELSE IF i = 0 THEN Result(f, "not_found", target_id, 0, "none")
               ELSE Result(save_tasks([tasks EXCEPT ![i].remark = remark_string]),
                           "remarked", target_id, 0, "none"))
              EXCEPT !.text = remark_string]

\* complete_all_tasks counting every task, pending or not.
complete_all_tasks_counting_all(f) ==
    LET data == load_tasks(f)
        tasks == data.list
        updated_count == Len(tasks)
    IN  IF data.foreign THEN Result(f, "raised", 0, 0, "TypeError")
        ELSE IF updated_count > 0
             THEN Result(save_tasks([i \in 1..Len(tasks) |->
                                        [tasks[i] EXCEPT !.completed = TRUE]]),
                         "all_completed", 0, updated_count, "none")
        ELSE Result(f, "nothing_pending", 0, 0, "none")

complete_all_tasks(f) ==
    LET data == load_tasks(f)
        tasks == data.list
        updated_count == Len(SelectSeq(tasks, Pending))
    IN  IF data.foreign THEN Result(f, "raised", 0, 0, "TypeError")
        ELSE IF updated_count > 0
             THEN Result(save_tasks([i \in 1..Len(tasks) |->
                                        [tasks[i] EXCEPT !.completed = TRUE]]),
                         "all_completed", 0, updated_count, "none")
        ELSE Result(f, "nothing_pending", 0, 0, "none")

\* delete_all_tasks saving the empty list whatever the count.
delete_all_tasks_saving(f) ==
    LET data == load_tasks(f)
        initial_count == IF data.foreign THEN 1 ELSE Len(data.list)
    IN  Result(save_tasks(<<>>),
               IF initial_count = 0 THEN "already_empty" ELSE "cleared",
               0, initial_count, "none")

delete_all_tasks(f) ==
    LET data == load_tasks(f)
        initial_count == IF data.foreign THEN 1 ELSE Len(data.list)
    IN  IF initial_count = 0 THEN Result(f, "already_empty", 0, 0, "none")
        ELSE Result(save_tasks(<<>>), "cleared", 0, initial_count, "none")

\* ------------------------------------------------------------ main()
\* The argparse namespace of one command line: task_id is an int (type=int),
\* text the list of words of add's description or remark's remark_text,
\* status the --status of list.
Args(command, task_id, text, status) ==
    [command |-> command, task_id |-> IntValue(task_id), text |-> text,
     status |-> status]

\* The execution logic of main() for one parsed command line.
main(args, f) ==
    CASE args.command = "list" -> list_tasks(args.status, f)
      [] args.command = "remark" -> remark_task(args.task_id, args.text, f)
      [] args.command = "add" -> add_task(JoinWith(args.text, <<" ">>), f)
      [] args.command = "done" -> complete_task(args.task_id, f)
      [] args.command = "delete" -> delete_task(args.task_id, f)
      [] args.command = "doneall" -> complete_all_tasks(f)
      [] args.command = "clear" -> delete_all_tasks(f)

\* What the user sees of a direct invocation: an exception nobody catches ends
\* the process with a traceback.
Outcome(command, r) ==
    [op |-> command,
     status |-> IF r.exc = "none" THEN r.status ELSE "crash",
     id |-> r.id, count |-> r.count, text |-> r.text]

\* The exit status of a direct invocation: main() returns and the interpreter
\* exits with 0 (no handler calls sys.exit); an exception nobody catches ends the
\* process with a traceback and status 1.
ExitStatus(o) == IF o.status = "crash" THEN 1 ELSE 0

NoOutcome == [op |-> "none", status |-> "none", id |-> 0, count |-> 0, text |-> <<>>]

\* The history of deleted ids after a command that printed o.
Deleted(o) ==
    IF "deleted" \in track /\ o.op = "delete" /\ o.status = "deleted"
    THEN deleted \cup {o.id} ELSE deleted

\* The history of completed ids once the file is f.
EverCompleted(f) ==
    IF "completed" \in track
    THEN completedIds \cup {load_tasks(f).list[i].id :
                               i \in {j \in 1..Len(load_tasks(f).list) :
                                         load_tasks(f).list[j].completed}}
    ELSE completedIds

\* A store has room for one more task within the bounds maxTasks, maxId.
HasRoom(f, maxTasks, maxId) ==
    /\ Len(load_tasks(f).list) < maxTasks
    /\ NewId(load_tasks(f).list) <= maxId

\* ---------------------------------------------------- batch interpreter
KwAdd == <<"a", "d", "d">>
KwDone == <<"d", "o", "n", "e">>
KwDelete == <<"d", "e", "l", "e", "t", "e">>
KwRemark == <<"r", "e", "m", "a", "r", "k">>
KwList == <<"l", "i", "s", "t">>
KwDoneAll == <<"d", "o", "n", "e", "a", "l", "l">>
KwClear == <<"c", "l", "e", "a", "r">>
FlagStatus == <<"-", "-", "s", "t", "a", "t", "u", "s">>

\* The name under which a batch keyword is reported.
OpName(command_name) ==
    CASE command_name = KwAdd -> "add"
      [] command_name = KwDone -> "done"
      [] command_name = KwDelete -> "delete"
      [] command_name = KwRemark -> "remark"
      [] command_name = KwList -> "list"
      [] command_name = KwDoneAll -> "doneall"
      [] command_name = KwClear -> "clear"
      [] OTHER -> "unknown"

\* parts[1].startswith('--status')
StartsWithFlag(w) ==
    Len(w) >= Len(FlagStatus) /\ SubSeq(w, 1, Len(FlagStatus)) = FlagStatus

\* The status text of list as list_tasks compares it.
StatusName(w) ==
    CASE w = <<"p", "e", "n", "d", "i", "n", "g">> -> "pending"
      [] w = <<"d", "o", "n", "e">> -> "done"
      [] OTHER -> "all"

\* commands = [cmd.strip() for cmd in batch_string.split(';') if cmd.strip()]
BatchCommands(batch_string) ==
    LET pieces == SplitOn(batch_string, ";")
        stripped == [i \in 1..Len(pieces) |-> Strip(pieces[i])]
        NonEmpty(c) == c # <<>>
    IN  SelectSeq(stripped, NonEmpty)

\* The try block of the loop of process_batch_commands for one sub-command.
Dispatch(cmd, f) ==
    LET parts == SplitWords(cmd)
        command_name == Lower(parts[1])
        op == OpName(command_name)
    IN  CASE op = "add" ->
               LET description == StripQuotes(Strip(SliceFrom(cmd, Len(command_name))))
               IN  IF description = <<>>
                   THEN Result(f, "raised", 0, 0, "IndexError")
                   ELSE add_task(description, f)
          [] op = "done" ->
               IF Len(parts) < 2 THEN Result(f, "raised", 0, 0, "IndexError")
               ELSE complete_task(StrValue(parts[2]), f)
          [] op = "delete" ->
               IF Len(parts) < 2 THEN Result(f, "raised", 0, 0, "IndexError")
               ELSE delete_task(StrValue(parts[2]), f)
          [] op = "remark" ->
               IF Len(parts) < 2 THEN Result(f, "raised", 0, 0, "IndexError")
               ELSE LET task_id == parts[2]
                        remark_text_raw ==
                            StripQuotes(Strip(SliceFrom(cmd,
                                Len(command_name) + Len(task_id) + 2)))
                    IN  IF remark_text_raw = <<>>
                        THEN Result(f, "raised", 0, 0, "IndexError")
                        ELSE remark_task(StrValue(task_id), <<remark_text_raw>>, f)
          [] op = "list" ->
               IF Len(parts) = 3 /\ StartsWithFlag(parts[2])
               THEN list_tasks(StatusName(parts[3]), f)
               ELSE list_tasks("all", f)
          [] op = "doneall" -> complete_all_tasks(f)
          [] op = "clear" -> delete_all_tasks(f)
          [] OTHER -> Result(f, "unknown_command", 0, 0, "none")

\* The except clauses without the last one, except Exception.
HandlerNarrow(exc) ==
    CASE exc = "IndexError" -> "index_error"
      [] exc = "ValueError" -> "value_error"
      [] OTHER -> "uncaught"

\* The except clauses of the loop: the outcome printed for an exception, or
\* "uncaught" when no clause matches it.
Handler(exc) ==
    CASE exc = "IndexError" -> "index_error"
      [] exc = "ValueError" -> "value_error"
      [] OTHER -> "exec_error"

\* What the user sees of one sub-command of a batch.
BatchOutcome(cmd, r) ==
    [op |-> OpName(Lower(SplitWords(cmd)[1])),
     status |-> IF r.exc = "none" THEN r.status ELSE Handler(r.exc),
     id |-> r.id, count |-> r.count, text |-> r.text]

\* ------------------------------------------------------- inputs of the model
TextA == <<"A">>
TextMilk == <<"B", "u", "y", " ", "m", "i", "l", "k">>
TextXY == <<"x", " ", "y">>

\* The word lists a direct add is given (nargs='+': at least one word, which
\* may be the empty string).
NamedAddInputs == {<<TextA>>, <<<<"B", "u", "y">>, <<"m", "i", "l", "k">>>>}
AddInputs == {<<<<"A">>, <<"B">>>>, <<<<>>>>}

\* The word lists a direct remark is given.
NamedRemarkInputs == {<<<<"x">>, <<"y">>>>, <<TextXY>>}
RemarkInputs == {<<<<"x">>>>, <<<<"x">>, <<"y">>>>, <<<<>>>>}

\* The ids a direct done, delete or remark is given (argparse type=int).
IdInputs == 1..MaxId
IdInputsIds == 1..MaxIdIds

StatusInputs == {"pending", "done", "all"}

Sp == <<" ">>

Quoted(t) == <<"'">> \o t \o <<"'">>

RECURSIVE IntText(_)
\* The decimal text of n >= 0.
IntText(n) ==
    IF n < 10 THEN <<Digits[n + 1]>> ELSE IntText(n \div 10) \o <<Digits[(n % 10) + 1]>>

\* A sub-command as it is typed in a batch, with the direct command line that
\* the usage text gives for the same command (NoDirect when there is none).
Entry(text, args) == [text |-> text, direct |-> args]

NoDirect == Args("none", 0, <<>>, "all")

WfAdd(t) == Entry(KwAdd \o Sp \o Quoted(t), Args("add", 0, <<t>>, "all"))
WfDone(n) == Entry(KwDone \o Sp \o IntText(n), Args("done", n, <<>>, "all"))
WfDelete(n) == Entry(KwDelete \o Sp \o IntText(n), Args("delete", n, <<>>, "all"))
WfRemark(n, t) ==
    Entry(KwRemark \o Sp \o IntText(n) \o Sp \o Quoted(t), Args("remark", n, <<t>>, "all"))
WfDoneAll == Entry(KwDoneAll, Args("doneall", 0, <<>>, "all"))
WfClear == Entry(KwClear, Args("clear", 0, <<>>, "all"))
WfList == Entry(KwList, Args("list", 0, <<>>, "all"))
WfListPending ==
    Entry(KwList \o Sp \o FlagStatus \o Sp \o <<"p", "e", "n", "d", "i", "n", "g">>,
          Args("list", 0, <<>>, "pending"))

\* Sub-commands that fail, or that no direct command line corresponds to.
IllUnknown == Entry(<<"b", "o", "g", "u", "s">>, NoDirect)
IllNoId == Entry(KwDone, NoDirect)
IllNoDescription == Entry(KwAdd \o Sp \o <<"'", "'">>, NoDirect)
IllNoRemark == Entry(KwRemark \o Sp \o <<"1">>, NoDirect)
IllTextId == Entry(KwDelete \o Sp \o <<"x">>, NoDirect)
IllUpper == Entry(<<"D", "O", "N", "E">> \o Sp \o <<"1">>, NoDirect)
IllBlank == Entry(<<" ">>, NoDirect)

WellFormedPool ==
    {WfAdd(TextA), WfAdd(TextMilk), WfDone(1), WfDelete(1), WfDelete(99),
     WfRemark(1, TextXY), WfDoneAll, WfClear, WfList, WfListPending}

IllFormedPool ==
    {IllUnknown, IllNoId, IllNoDescription, IllNoRemark, IllTextId, IllUpper, IllBlank}

BatchPool == WellFormedPool \cup IllFormedPool

\* The sub-commands that follow another one in the two-command batches.
FollowUps == {WfAdd(TextA), WfDone(1), WfList, IllUnknown}

\* The batch string typed for a list of sub-commands: "a; b; c".
BatchString(input) ==
    JoinWith([i \in 1..Len(input) |-> input[i].text], <<";", " ">>)

\* The direct command lines of the sub-commands that are not blank.
PlanOf(input) ==
    LET Kept(e) == Strip(e.text) # <<>>
        kept == SelectSeq(input, Kept)
    IN  [i \in 1..Len(kept) |-> kept[i].direct]

\* s.lower().startswith('add')
StartsWithAdd(s) == Len(s) >= Len(KwAdd) /\ Lower(SubSeq(s, 1, Len(KwAdd))) = KwAdd

\* A typed batch: its string as process_batch_commands splits it, the direct
\* command lines of its sub-commands, and the most tasks it can add.
Typed(input) ==
    LET commands == BatchCommands(BatchString(input))
        lines == PlanOf(input)
    IN  [commands |-> commands,
         plan |-> IF Len(lines) = Len(commands) THEN lines
                  ELSE [i \in 1..Len(commands) |-> NoDirect],
         adds |-> Len(SelectSeq(commands, StartsWithAdd))]

\* The batches of one or two sub-commands of the pool.
PoolBatches ==
    {Typed(<<a>>) : a \in BatchPool}
        \cup {Typed(<<a, b>>) : a \in BatchPool, b \in FollowUps}

\* The batches that add tasks and then name the ids just assigned, n being the
\* next id of the store.
IdBatches ==
    [n \in 1..(MaxId + 1) |->
        {Typed(<<WfAdd(TextA), WfAdd(TextMilk), WfDone(n + 1)>>),
         Typed(<<WfAdd(TextMilk), WfDone(n), WfDelete(99)>>),
         Typed(<<WfAdd(TextA), WfRemark(n, TextXY), WfDone(n)>>)}]

\* The batches given to a store f.
BatchInputs(f) == PoolBatches \cup IdBatches[NewId(load_tasks(f).list)]

\* A batch adding at most adds tasks stays within the bounds maxTasks, maxId.
Fits(adds, f, maxTasks, maxId) ==
    /\ Len(load_tasks(f).list) + adds <= maxTasks
    /\ NewId(load_tasks(f).list) + adds - 1 <= maxId

\* ---------------------------------------------------- direct invocations
\* One run of the program with the command line args.
Invoke(args) ==
    LET r == main(args, file)
        o == Outcome(args.command, r)
    IN  /\ pc = "idle"
        /\ file' = r.file
        /\ out' = o
        /\ deleted' = Deleted(o)
        /\ completedIds' = EverCompleted(r.file)
        /\ direct' = [file |-> r.file, out |-> o, ok |-> TRUE]
        /\ UNCHANGED <<pc, queue, total, track, plan, disk, procs>>

AddWith(inputs, maxTasks, maxId) ==
    \E words \in inputs :
        /\ HasRoom(file, maxTasks, maxId)
        /\ Invoke(Args("add", 0, words, "all"))

Add == AddWith(AddInputs, MaxTasks, MaxId)

List == \E st \in StatusInputs : Invoke(Args("list", 0, <<>>, st))

DoneWith(ids) == \E id \in ids : Invoke(Args("done", id, <<>>, "all"))

Done == DoneWith(IdInputs)

DeleteWith(ids) == \E id \in ids : Invoke(Args("delete", id, <<>>, "all"))

Delete == DeleteWith(IdInputs)

RemarkWith(inputs) ==
    \E id \in IdInputs, words \in inputs : Invoke(Args("remark", id, words, "all"))

Remark == RemarkWith(RemarkInputs)

DoneAll == Invoke(Args("doneall", 0, <<>>, "all"))

Clear == Invoke(Args("clear", 0, <<>>, "all"))

\* ------------------------------------------------------ batch invocations
\* process_batch_commands up to its loop: the batch string is split into its
\* sub-commands; an empty batch ends at once.
BatchStartWith(batches) ==
    \E batch \in batches :
        LET commands == batch.commands
        IN  /\ pc = "idle"
            /\ Fits(batch.adds, file, MaxTasks, MaxId)
            /\ pc' = IF commands = <<>> THEN "idle" ELSE "batch"
            /\ queue' = commands
            /\ total' = Len(commands)
            /\ out' = [op |-> "batch",
                       status |-> IF commands = <<>> THEN "empty_batch" ELSE "started",
                       id |-> 0, count |-> Len(commands), text |-> <<>>]
            /\ plan' = batch.plan
            /\ direct' = [file |-> file, out |-> out', ok |-> TRUE]
            /\ UNCHANGED <<file, deleted, track, completedIds, disk, procs>>

BatchStart == BatchStartWith(BatchInputs(file))

\* One iteration of the loop of process_batch_commands; after the last one the
\* batch is finished.  An exception no except clause catches ends the process.
BatchStep ==
    /\ pc = "batch"
    /\ queue # <<>>
    /\ LET cmd == Head(queue)
           r == Dispatch(cmd, file)
           o == BatchOutcome(cmd, r)
           d == main(Head(plan), direct.file)
           comparable == direct.ok /\ Head(plan) # NoDirect /\ file.kind # "foreign"
       IN  /\ file' = r.file
           /\ deleted' = Deleted(o)
           /\ completedIds' = EverCompleted(r.file)
           /\ IF o.status = "uncaught"
              THEN /\ pc' = "idle"
                   /\ queue' = <<>>
                   /\ plan' = <<>>
                   /\ out' = [o EXCEPT !.status = "crash"]
              ELSE /\ pc' = IF Tail(queue) = <<>> THEN "idle" ELSE "batch"
                   /\ queue' = Tail(queue)
                   /\ plan' = Tail(plan)
                   /\ out' = o
           /\ direct' = IF comparable
                        THEN [file |-> d.file,
                              out |-> Outcome(Head(plan).command, d),
                              ok |-> TRUE]
                        ELSE [file |-> r.file, out |-> out', ok |-> FALSE]
           /\ UNCHANGED <<total, track, disk, procs>>

\* ----------------------------------------------------------- specification
\* Before the first invocation the file is absent, is not JSON, or is JSON of
\* another shape.
InitFiles == {AbsentFile, CorruptFile, ForeignFile}

InitWith(tracking) ==
    /\ file \in InitFiles
    /\ pc = "idle"
    /\ queue = <<>>
    /\ total = 0
    /\ out = NoOutcome
    /\ deleted = {}
    /\ track = tracking
    /\ completedIds = {}
    /\ plan = <<>>
    /\ direct = [file |-> file, out |-> NoOutcome, ok |-> TRUE]
    /\ disk = NoDisk
    /\ procs = NoProcs

Init == InitWith({})

\* The direct invocations, with every input of the model.
Next ==
    \/ Add
    \/ List
    \/ Done
    \/ Delete
    \/ Remark
    \/ DoneAll
    \/ Clear

Spec == Init /\ [][Next]_vars

\* Batch invocations, and direct invocations with the texts the batches use.
AddNamed == AddWith(NamedAddInputs, MaxTasks, MaxId)

RemarkNamed == RemarkWith(NamedRemarkInputs)

NextBatch ==
    \/ BatchStart
    \/ BatchStep
    \/ AddNamed
    \/ Done
    \/ Delete
    \/ RemarkNamed
    \/ DoneAll
    \/ Clear

SpecBatch == Init /\ [][NextBatch]_vars

\* The operations that decide the ids, on larger stores, with the history of
\* the deleted ids.
InitIds == InitWith({"deleted"})

AddIds == AddWith({<<TextA>>}, MaxTasksIds, MaxIdIds)

DoneIds == DoneWith(IdInputsIds)

DeleteIds == DeleteWith(IdInputsIds)

NextIds ==
    \/ AddIds
    \/ DoneIds
    \/ DeleteIds
    \/ Clear

SpecIds == InitIds /\ [][NextIds]_vars

\* The commands that add, change and remove tasks, with the history of the
\* completed ids.
InitDone == InitWith({"completed"})

AddDone == AddWith({<<TextA>>}, MaxTasks, MaxId)

RemarkDone == RemarkWith({<<TextXY>>})

NextDone ==
    \/ AddDone
    \/ Done
    \/ Delete
    \/ RemarkDone
    \/ DoneAll
    \/ Clear

SpecDone == InitDone /\ [][NextDone]_vars

\* Batches of one remark sub-command for task 1, with one, two or three blanks
\* or a tab between the keyword, the id and the text, and with no text.
TextHi == <<"h", "i">>
Tab == <<"\t">>

RemarkTyped(gap1, gap2, rest) ==
    Typed(<<Entry(KwRemark \o gap1 \o <<"1">> \o gap2 \o rest, NoDirect)>>)

RemarkBatches ==
    {RemarkTyped(g1, g2, t) :
        g1 \in {Sp, Sp \o Sp, Sp \o Sp \o Sp, Tab},
        g2 \in {Sp, Sp \o Sp},
        t \in {TextHi, Quoted(TextXY)}}
        \cup {RemarkTyped(g1, <<>>, <<>>) : g1 \in {Sp, Sp \o Sp, Sp \o Sp \o Sp, Tab}}

RemarkBatchStart == BatchStartWith(RemarkBatches)

NextRemark ==
    \/ RemarkBatchStart
    \/ BatchStep
    \/ AddNamed
    \/ Done
    \/ Delete

SpecRemark == Init /\ [][NextRemark]_vars

\* ------------------------------------------------- JSON text of todo.json
\* A JSON value as json.load returns it: an int, a str, a bool, None, a list
\* (items) or a dict (items, each a key with its value, in the order of the text).
JInt(n) == [t |-> "int", n |-> n, s |-> <<>>, b |-> FALSE, items |-> <<>>]
JStr(s) == [t |-> "str", n |-> 0, s |-> s, b |-> FALSE, items |-> <<>>]
JBool(b) == [t |-> "bool", n |-> 0, s |-> <<>>, b |-> b, items |-> <<>>]
JNull == [t |-> "null", n |-> 0, s |-> <<>>, b |-> FALSE, items |-> <<>>]
JArr(items) == [t |-> "arr", n |-> 0, s |-> <<>>, b |-> FALSE, items |-> items]
JObj(items) == [t |-> "obj", n |-> 0, s |-> <<>>, b |-> FALSE, items |-> items]
Member(key, val) == [key |-> key, val |-> val]

Newline == <<"\n">>
KeyId == <<"i", "d">>
KeyDescription == <<"d", "e", "s", "c", "r", "i", "p", "t", "i", "o", "n">>
KeyCompleted == <<"c", "o", "m", "p", "l", "e", "t", "e", "d">>
KeyRemark == <<"r", "e", "m", "a", "r", "k">>
LitTrue == <<"t", "r", "u", "e">>
LitFalse == <<"f", "a", "l", "s", "e">>
LitNull == <<"n", "u", "l", "l">>

\* The task dict of add_task, its keys in the order add_task creates them.
TaskJson(task) ==
    JObj(<<Member(KeyId, JInt(task.id)),
           Member(KeyDescription, JStr(task.description)),
           Member(KeyCompleted, JBool(task.completed)),
           Member(KeyRemark, JStr(task.remark))>>)

\* The list of task dicts that save_tasks is given.
TasksJson(tasks) == JArr([i \in 1..Len(tasks) |-> TaskJson(tasks[i])])

\* ' ' * n
Spaces(n) == [i \in 1..n |-> " "]

\* The text json.dump writes for one character of a str (ensure_ascii=False).
EscapeChar(c) ==
    CASE c = "\"" -> <<"\\", "\"">>
      [] c = "\\" -> <<"\\", "\\">>
      [] c = "\n" -> <<"\\", "n">>
      [] c = "\t" -> <<"\\", "t">>
      [] OTHER -> <<c>>

RECURSIVE EscapeAll(_)
EscapeAll(s) == IF s = <<>> THEN <<>> ELSE EscapeChar(Head(s)) \o EscapeAll(Tail(s))

\* The text json.dump writes for a str.
DumpString(s) == <<"\"">> \o EscapeAll(s) \o <<"\"">>

\* The text json.dump writes for an int.
DumpInt(n) == IF n < 0 THEN <<"-">> \o IntText(0 - n) ELSE IntText(n)

RECURSIVE DumpValue(_, _)
RECURSIVE DumpItems(_, _, _)
\* The items of a list or dict, one per line at indentation ind, with ",\n"
\* between them.
DumpItems(items, isObj, ind) ==
    LET first == items[1]
        line == Spaces(ind) \o
                (IF isObj
                 THEN DumpString(first.key) \o <<":", " ">> \o DumpValue(first.val, ind)
                 ELSE DumpValue(first, ind))
    IN  IF Len(items) = 1 THEN line
        ELSE line \o <<",">> \o Newline \o DumpItems(Tail(items), isObj, ind)

\* json.dump(value, indent=4, ensure_ascii=False) for a value at indentation ind.
DumpValue(v, ind) ==
    CASE v.t = "int" -> DumpInt(v.n)
      [] v.t = "str" -> DumpString(v.s)
      [] v.t = "bool" -> IF v.b THEN LitTrue ELSE LitFalse
      [] v.t = "null" -> LitNull
      [] v.t = "arr" ->
           IF v.items = <<>> THEN <<"[", "]">>
           ELSE <<"[">> \o Newline \o DumpItems(v.items, FALSE, ind + 4)
                \o Newline \o Spaces(ind) \o <<"]">>
      [] v.t = "obj" ->
           IF v.items = <<>> THEN <<"{", "}">>
           ELSE <<"{">> \o Newline \o DumpItems(v.items, TRUE, ind + 4)
                \o Newline \o Spaces(ind) \o <<"}">>

\* json.dump(value, f, indent=4, ensure_ascii=False)
json_dump(v) == DumpValue(v, 0)

\* The result of parsing a prefix of a text: the value and the text left.
POk(v, rest) == [ok |-> TRUE, val |-> v, rest |-> rest]
PFail == [ok |-> FALSE, val |-> JNull, rest |-> <<>>]

\* The whitespace JSON allows between tokens.
JsonSpace(c) == c \in {" ", "\t", "\n", "\r"}

RECURSIVE SkipSpace(_)
SkipSpace(s) ==
    IF s = <<>> THEN <<>>
    ELSE IF JsonSpace(Head(s)) THEN SkipSpace(Tail(s)) ELSE s

StartsWith(s, lit) == Len(s) >= Len(lit) /\ SubSeq(s, 1, Len(lit)) = lit

RECURSIVE ParseStringRaw(_, _)
\* A str after its opening quote, its escapes left as they are written.
ParseStringRaw(s, acc) ==
    IF s = <<>> THEN PFail
    ELSE LET c == Head(s)
         IN  IF c = "\"" THEN POk(JStr(acc), Tail(s))
             ELSE IF c = "\\"
                  THEN IF Len(s) < 2 THEN PFail
                       ELSE ParseStringRaw(SubSeq(s, 3, Len(s)), acc \o <<c, s[2]>>)
             ELSE IF c \in {"\n", "\t", "\r"} THEN PFail
             ELSE ParseStringRaw(Tail(s), Append(acc, c))

RECURSIVE ParseString(_, _)
\* A str after its opening quote: up to the closing quote, with the escapes
\* \" \\ \/ \n \t \r; a raw control character is an error.
ParseString(s, acc) ==
    IF s = <<>> THEN PFail
    ELSE LET c == Head(s)
         IN  IF c = "\"" THEN POk(JStr(acc), Tail(s))
             ELSE IF c = "\\"
                  THEN IF Len(s) < 2 THEN PFail
                       ELSE LET e == s[2]
                                rest == SubSeq(s, 3, Len(s))
                            IN  CASE e \in {"\"", "\\", "/"} ->
                                       ParseString(rest, Append(acc, e))
                                  [] e = "n" -> ParseString(rest, Append(acc, "\n"))
                                  [] e = "t" -> ParseString(rest, Append(acc, "\t"))
                                  [] e = "r" -> ParseString(rest, Append(acc, "\r"))
                                  [] OTHER -> PFail
             ELSE IF c \in {"\n", "\t", "\r"} THEN PFail
             ELSE ParseString(Tail(s), Append(acc, c))

RECURSIVE DigitRun(_)
\* The longest prefix of s made of digits.
DigitRun(s) ==
    IF s # <<>> /\ IsDigit(Head(s)) THEN <<Head(s)>> \o DigitRun(Tail(s)) ELSE <<>>

\* An int: an optional '-', then 0 or a run of digits that does not start
\* with 0.
ParseInt(s) ==
    LET negative == s # <<>> /\ Head(s) = "-"
        body == IF negative THEN Tail(s) ELSE s
        run == IF body # <<>> /\ Head(body) = "0" THEN <<"0">> ELSE DigitRun(body)
        value == DigitsValue(run, 0)
    IN  IF run = <<>> THEN PFail
        ELSE POk(JInt(IF negative THEN 0 - value ELSE value), SliceFrom(body, Len(run)))

RECURSIVE ParseValue(_)
RECURSIVE ParseElements(_, _)
RECURSIVE ParseMembers(_, _)

\* The items of a list after its '[': values with ',' between them, up to ']'.
ParseElements(s, acc) ==
    LET v == ParseValue(s)
        r == SkipSpace(v.rest)
    IN  IF ~v.ok \/ r = <<>> THEN PFail
        ELSE IF Head(r) = "," THEN ParseElements(Tail(r), Append(acc, v.val))
        ELSE IF Head(r) = "]" THEN POk(JArr(Append(acc, v.val)), Tail(r))
        ELSE PFail

\* The items of a dict after its '{': "key": value with ',' between them, up
\* to '}'.
ParseMembers(s, acc) ==
    LET s1 == SkipSpace(s)
        k == IF s1 # <<>> /\ Head(s1) = "\"" THEN ParseString(Tail(s1), <<>>) ELSE PFail
        r1 == SkipSpace(k.rest)
        v == IF k.ok /\ r1 # <<>> /\ Head(r1) = ":" THEN ParseValue(Tail(r1)) ELSE PFail
        r2 == SkipSpace(v.rest)
        item == Member(k.val.s, v.val)
    IN  IF ~v.ok \/ r2 = <<>> THEN PFail
        ELSE IF Head(r2) = "," THEN ParseMembers(Tail(r2), Append(acc, item))
        ELSE IF Head(r2) = "}" THEN POk(JObj(Append(acc, item)), Tail(r2))
        ELSE PFail

\* One JSON value at the front of s, after whitespace.
ParseValue(s0) ==
    LET s == SkipSpace(s0)
    IN  IF s = <<>> THEN PFail
        ELSE CASE Head(s) = "[" ->
                    LET r == SkipSpace(Tail(s))
                    IN  IF r # <<>> /\ Head(r) = "]" THEN POk(JArr(<<>>), Tail(r))
                        ELSE ParseElements(Tail(s), <<>>)
               [] Head(s) = "{" ->
                    LET r == SkipSpace(Tail(s))
                    IN  IF r # <<>> /\ Head(r) = "}" THEN POk(JObj(<<>>), Tail(r))
                        ELSE ParseMembers(Tail(s), <<>>)
               [] Head(s) = "\"" -> ParseString(Tail(s), <<>>)
               [] Head(s) = "-" \/ IsDigit(Head(s)) -> ParseInt(s)
               [] StartsWith(s, LitTrue) -> POk(JBool(TRUE), SliceFrom(s, Len(LitTrue)))
               [] StartsWith(s, LitFalse) -> POk(JBool(FALSE), SliceFrom(s, Len(LitFalse)))
               [] StartsWith(s, LitNull) -> POk(JNull, SliceFrom(s, Len(LitNull)))
               [] OTHER -> PFail

\* json.load(f): the value of the text, or JSONDecodeError (ok = FALSE) when the
\* text is not one JSON value.
json_load(text) ==
    LET r == ParseValue(text)
    IN  IF r.ok /\ SkipSpace(r.rest) = <<>> THEN r ELSE PFail

\* ---------------------------------------------- the store as text on disk
\* load_tasks() on the characters of the file: [] when there is no file or the
\* text is not JSON, else the value json.load returns.
load_tasks_text(d) ==
    IF ~d.exists THEN JArr(<<>>)
    ELSE LET r == json_load(d.text)
         IN  IF r.ok THEN r.val ELSE JArr(<<>>)

\* save_tasks(tasks) on the characters of the file: open(DATA_FILE, 'w') and
\* json.dump replace whatever the file held.
save_tasks_text(v) == DiskText(json_dump(v))

\* v is a task dict as add_task creates it.
IsTaskJson(v) ==
    /\ v.t = "obj"
    /\ Len(v.items) = 4
    /\ v.items[1].key = KeyId /\ v.items[1].val.t = "int"
    /\ v.items[2].key = KeyDescription /\ v.items[2].val.t = "str"
    /\ v.items[3].key = KeyCompleted /\ v.items[3].val.t = "bool"
    /\ v.items[4].key = KeyRemark /\ v.items[4].val.t = "str"

TaskOfJson(v) ==
    [id |-> v.items[1].val.n, description |-> v.items[2].val.s,
     completed |-> v.items[3].val.b, remark |-> v.items[4].val.s]

\* A text that is not JSON, and the JSON text [0].
CorruptText == <<"{">>
ForeignText == <<"[", "0", "]">>

\* The file value that the characters on disk stand for.
FileOf(d) ==
    IF ~d.exists THEN AbsentFile
    ELSE IF d.text = <<>> THEN TruncatedFile
    ELSE LET r == json_load(d.text)
         IN  IF ~r.ok THEN CorruptFile
             ELSE IF r.val.t = "arr" /\ \A i \in 1..Len(r.val.items) : IsTaskJson(r.val.items[i])
                  THEN save_tasks([i \in 1..Len(r.val.items) |-> TaskOfJson(r.val.items[i])])
             ELSE ForeignFile

\* The characters on disk of a file value.
DiskOf(f) ==
    CASE f.kind = "absent" -> NoDisk
      [] f.kind = "empty" -> DiskText(<<>>)
      [] f.kind = "corrupt" -> DiskText(CorruptText)
      [] f.kind = "foreign" -> DiskText(ForeignText)
      [] f.kind = "tasks" -> save_tasks_text(TasksJson(f.tasks))

\* Most tasks of a store given to the serialisation.
MaxTasksJson == 2

\* The tasks of those stores: the task at position i has id 8 + i.
TextQuoted == <<"a", "\"", "b", "\\">>

JsonTasks(i) ==
    {[id |-> 8 + i, description |-> d, completed |-> c, remark |-> r] :
        d \in {TextA, TextQuoted}, c \in BOOLEAN, r \in {<<>>, TextXY}}

RECURSIVE JsonStores(_)
\* The stores of n tasks.
JsonStores(n) ==
    IF n = 0 THEN {<<>>}
    ELSE {Append(st, t) : st \in JsonStores(n - 1), t \in JsonTasks(n)}

\* What may be on disk: no file, an empty file, text that is not JSON, JSON of
\* another shape, and the stores save_tasks has written.
JsonDisks ==
    {NoDisk, DiskText(<<>>), DiskText(CorruptText), DiskText(ForeignText)}
        \cup {save_tasks_text(TasksJson(st)) :
                st \in UNION {JsonStores(n) : n \in 0..MaxTasksJson}}

InitJson ==
    /\ disk \in JsonDisks
    /\ file = FileOf(disk)
    /\ pc = "idle"
    /\ queue = <<>>
    /\ total = 0
    /\ out = NoOutcome
    /\ deleted = {}
    /\ track = {}
    /\ completedIds = {}
    /\ plan = <<>>
    /\ direct = [file |-> file, out |-> NoOutcome, ok |-> TRUE]
    /\ procs = NoProcs

\* save_tasks(load_tasks()) on the file as it is on disk.
Resave ==
    /\ pc = "idle"
    /\ disk' = save_tasks_text(load_tasks_text(disk))
    /\ file' = FileOf(disk')
    /\ out' = [NoOutcome EXCEPT !.op = "resave", !.status = "saved"]
    /\ direct' = [file |-> file', out |-> out', ok |-> TRUE]
    /\ UNCHANGED <<pc, queue, total, deleted, track, completedIds, plan, procs>>

NextJson == Resave

SpecJson == InitJson /\ [][NextJson]_vars

\* ------------------------------------------- two concurrent invocations
\* The command has called save_tasks: its outcome is one of those printed
\* after a save.
Saves(r) ==
    /\ r.exc = "none"
    /\ r.status \in {"added", "completed", "deleted", "remarked", "all_completed",
                     "cleared"}

\* open(DATA_FILE, 'w') without the truncation of mode 'w'.
open_keeping(f) == f

\* open(DATA_FILE, 'w') of save_tasks: the file is created or truncated.
open_w(f) == TruncatedFile

\* The characters of the file after text is written at its start over cur.
Overwrite(text, cur) == text \o SliceFrom(cur, Len(text))

\* The command lines of the concurrent invocations.
RaceInputs ==
    {Args("add", 0, <<TextA>>, "all"), Args("add", 0, <<TextXY>>, "all"),
     Args("done", 1, <<>>, "all"), Args("delete", 1, <<>>, "all"),
     Args("remark", 1, <<TextXY>>, "all"), Args("doneall", 0, <<>>, "all"),
     Args("clear", 0, <<>>, "all")}

\* An invocation that has not loaded the file yet.
Ready(args) ==
    [pc |-> "ready", args |-> args, loaded |-> AbsentFile,
     result |-> Result(AbsentFile, "none", 0, 0, "none")]

AddsOf(args) == IF args.command = "add" THEN 1 ELSE 0

\* Process q is inside save_tasks, between its open and its write.
Saving(q) == procs.run[q].pc = "opened"

\* Two invocations of the program are started at the same time.
RaceStart ==
    \E a1, a2 \in RaceInputs :
        /\ pc = "idle"
        /\ Fits(AddsOf(a1) + AddsOf(a2), file, MaxTasks, MaxId)
        /\ pc' = "race"
        /\ procs' = [run |-> <<Ready(a1), Ready(a2)>>, writers |-> <<>>, torn |-> FALSE]
        /\ out' = NoOutcome
        /\ UNCHANGED <<file, queue, total, deleted, track, completedIds, plan, direct, disk>>

\* Process p runs its command up to the call of save_tasks: it loads the file
\* and computes the list it will save; a command that saves nothing (or that
\* raises) ends here.
Load(p) ==
    /\ pc = "race"
    /\ procs.run[p].pc = "ready"
    /\ LET r == main(procs.run[p].args, file)
       IN  /\ procs' = [procs EXCEPT
                           !.run[p].pc = IF Saves(r) THEN "loaded" ELSE "done",
                           !.run[p].loaded = file,
                           !.run[p].result = r,
                           !.torn = @ \/ Saving(3 - p)]
           /\ out' = IF Saves(r) THEN out ELSE Outcome(procs.run[p].args.command, r)
    /\ UNCHANGED <<file, pc, queue, total, deleted, track, completedIds, plan, direct, disk>>

\* Process p enters save_tasks: open(DATA_FILE, 'w').
Open(p) ==
    /\ pc = "race"
    /\ procs.run[p].pc = "loaded"
    /\ file' = open_w(file)
    /\ procs' = [procs EXCEPT !.run[p].pc = "opened", !.torn = @ \/ Saving(3 - p)]
    /\ UNCHANGED <<pc, queue, total, out, deleted, track, completedIds, plan, direct, disk>>

\* Process p leaves save_tasks: json.dump and the close of the file write the
\* text of its list at the start of the file, and the command prints its outcome.
Write(p) ==
    /\ pc = "race"
    /\ procs.run[p].pc = "opened"
    /\ LET text == DiskOf(procs.run[p].result.file).text
           cur == DiskOf(file).text
       IN  file' = FileOf(DiskText(Overwrite(text, cur)))
    /\ procs' = [procs EXCEPT !.run[p].pc = "done", !.writers = Append(@, p),
                              !.torn = @ \/ Saving(3 - p)]
    /\ out' = Outcome(procs.run[p].args.command, procs.run[p].result)
    /\ UNCHANGED <<pc, queue, total, deleted, track, completedIds, plan, direct, disk>>

\* Both invocations have ended.
RaceEnd ==
    /\ pc = "race"
    /\ \A p \in 1..2 : procs.run[p].pc = "done"
    /\ pc' = "idle"
    /\ procs' = NoProcs
    /\ UNCHANGED <<file, queue, total, out, deleted, track, completedIds, plan, direct, disk>>

NextRace ==
    \/ RaceStart
    \/ \E p \in 1..2 : Load(p)
    \/ \E p \in 1..2 : Open(p)
    \/ \E p \in 1..2 : Write(p)
    \/ RaceEnd

SpecRace == Init /\ [][NextRace]_vars

\* ------------------------------------------------------------------ claims
\* The tasks of the persisted store, and their ids.
TasksOf(f) == load_tasks(f).list

IdsOf(f) == {TasksOf(f)[i].id : i \in 1..Len(TasksOf(f))}

MaxOf(S) == CHOOSE m \in S : \A x \in S : x <= m

Added(o) == o.op = "add" /\ o.status = "added"

C2_UniqueIds ==
    \A i, j \in 1..Len(TasksOf(file)) :
        i # j => TasksOf(file)[i].id # TasksOf(file)[j].id

\* A batch add onto a store whose ids no longer start at 1.
C2_Witness ==
    /\ pc = "batch"
    /\ Added(out)
    /\ Len(TasksOf(file)) = 2
    /\ TasksOf(file)[1].id > 1

\* C3: add appends a task whose id is the largest id of the loaded store plus 1,
\* or 1 for an empty store; with ids 1..n in the store the new id is n + 1.
C3_NextId ==
    [][Added(out') =>
        /\ out'.id = IF IdsOf(file) = {} THEN 1 ELSE MaxOf(IdsOf(file)) + 1
        /\ TasksOf(file') = Append(TasksOf(file), Task(out'.id, out'.text))
        /\ (\A i \in 1..Len(TasksOf(file)) : TasksOf(file)[i].id = i)
              => out'.id = Len(TasksOf(file)) + 1]_vars

\* Three adds in a row have produced the ids 1, 2, 3.
C3_Witness ==
    /\ Added(out)
    /\ Len(TasksOf(file)) = 3
    /\ \A i \in 1..3 : TasksOf(file)[i].id = i

\* The outcomes of a sub-command that failed.
FailureStatuses ==
    {"unknown_command", "index_error", "value_error", "exec_error", "invalid_id",
     "not_found"}

\* C4: inside a batch every step dispatches the first sub-command not yet
\* executed and goes on to the next one, whatever the outcome; the batch ends
\* only after its last sub-command, and never by an exception.
C4_Isolation ==
    /\ [][pc = "batch" =>
            /\ queue' = Tail(queue)
            /\ total' = total
            /\ out'.op = OpName(Lower(SplitWords(Head(queue))[1]))
            /\ out'.status # "crash"
            /\ (pc' = "idle") = (Tail(queue) = <<>>)]_vars
    /\ [](pc = "batch" => queue # <<>> /\ Len(queue) <= total)

\* A sub-command has raised an unexpected error and the batch goes on.
C4_Witness == pc = "batch" /\ out.status = "exec_error" /\ queue # <<>>

\* C5: a done that follows an add in a batch and names the id just assigned
\* finds that task in the store it loads and completes it, leaving the tasks
\* added before it as they are.
C5_SeesEarlier ==
    [][(pc = "batch" /\ Added(out) /\ Head(queue) = WfDone(out.id).text) =>
        /\ out'.op = "done" /\ out'.status = "completed" /\ out'.id = out.id
        /\ TasksOf(file)[Len(TasksOf(file))].id = out.id
        /\ TasksOf(file') =
              [TasksOf(file) EXCEPT ![Len(TasksOf(file))].completed = TRUE]]_vars

\* "add 'A'; add 'Buy milk'; done <id of the second>" has run: the second task
\* is completed, the first one pending.
C5_Witness ==
    LET tasks == TasksOf(file)
        n == Len(tasks)
    IN  /\ pc = "idle" /\ total = 3
        /\ out.op = "done" /\ out.status = "completed"
        /\ n >= 2
        /\ tasks[n].id = out.id /\ tasks[n].completed
        /\ tasks[n].description = TextMilk
        /\ tasks[n - 1].description = TextA /\ ~tasks[n - 1].completed

\* The batch "add 'Buy milk'; done 1; delete 99" has just ended.
MilkBatchEnded == pc = "idle" /\ total = 3 /\ out.op = "delete" /\ out.id = 99

\* C6: the sub-commands of a batch leave the store, and print the outcome, that
\* the same command lines leave and print as direct invocations; the batch
\* "add 'Buy milk'; done 1; delete 99" on the empty store ends with not-found
\* and a store of exactly one task, completed.
C6_SameAsDirect ==
    /\ direct.ok => direct.file = file /\ direct.out = out
    /\ (MilkBatchEnded /\ file.kind = "tasks" /\ Len(TasksOf(file)) <= 1) =>
          /\ out.status = "not_found"
          /\ TasksOf(file) = <<[Task(1, TextMilk) EXCEPT !.completed = TRUE]>>

\* The batch "add 'Buy milk'; done 1; delete 99" has run on the empty store.
C6_Witness ==
    /\ MilkBatchEnded
    /\ direct.ok
    /\ Len(TasksOf(file)) = 1
    /\ TasksOf(file)[1].completed

\* C7: done(id) ends in not-found when no task has the id, in already-done when
\* the task is completed, both leaving the file as it is, and else in completed
\* with only the completed flag of that task changed.
C7_ThreeOutcomes ==
    [][(out'.op = "done" /\ file.kind # "foreign") =>
        LET tasks == TasksOf(file)
            at == {i \in 1..Len(tasks) : tasks[i].id = out'.id}
        IN  /\ out'.status \in {"not_found", "already_done", "completed"}
            /\ (out'.status = "not_found") = (at = {})
            /\ (out'.status = "already_done") =
                  (at # {} /\ \A i \in at : tasks[i].completed)
            /\ out'.status # "completed" => file' = file
            /\ out'.status = "completed" =>
                  \E i \in at : TasksOf(file') = [tasks EXCEPT ![i].completed = TRUE]]_vars

\* done on a completed task that carries a remark.
C7_Witness ==
    /\ out.op = "done" /\ out.status = "already_done"
    /\ \E i \in 1..Len(TasksOf(file)) :
          /\ TasksOf(file)[i].id = out.id
          /\ TasksOf(file)[i].remark # <<>>

\* C8: done, delete and remark with an id that no task has end in not-found and
\* leave the file as it is.
C8_NotFound ==
    [][(out'.op \in {"done", "delete", "remark"}
          /\ file.kind # "foreign" /\ out'.id \notin IdsOf(file)) =>
        out'.status = "not_found" /\ file' = file]_vars

\* delete with an id that no task of a non-empty store has.
C8_Witness ==
    /\ out.op = "delete" /\ out.status = "not_found"
    /\ TasksOf(file) # <<>>

\* C9: every task has a non-empty description, and an add with an empty
\* description adds nothing.
C9_DescriptionsNonEmpty ==
    /\ \A i \in 1..Len(TasksOf(file)) : TasksOf(file)[i].description # <<>>
    /\ (out.op = "add" /\ out.text = <<>>) => out.status # "added"

\* C10: a remark whose joined text is empty is rejected and leaves the file as
\* it is.
C10_EmptyRemarkRejected ==
    [][(out'.op = "remark" /\ out'.text = <<>>) =>
        out'.status # "remarked" /\ file' = file]_vars

\* C11: clear leaves the store empty and reports the number of tasks it held;
\* on a store that holds none it reports already-empty and writes nothing; a
\* list that follows a clear reports an empty store and an add that follows it
\* assigns id 1.
C11_ClearEmpties ==
    [][/\ out'.op = "clear" =>
            /\ TasksOf(file') = <<>>
            /\ load_tasks(file').foreign = FALSE
            /\ out'.status \in {"cleared", "already_empty"}
            /\ file.kind # "foreign" => out'.count = Len(TasksOf(file))
            /\ (out'.status = "already_empty") = (out'.count = 0)
            /\ out'.count = 0 => file' = file
            /\ out'.count > 0 => file' = save_tasks(<<>>)
       /\ (out.op = "clear" /\ out'.op = "list") => out'.status = "list_empty"
       /\ (out.op = "clear" /\ out'.op = "add") =>
            /\ Added(out') /\ out'.id = 1
            /\ TasksOf(file') = <<Task(1, out'.text)>>]_vars

\* clear has removed a store of two tasks or more.
C11_Witness ==
    /\ out.op = "clear" /\ out.status = "cleared" /\ out.count >= 2
    /\ file = save_tasks(<<>>)

\* The ids and descriptions of the tasks, in store order.
Identity(tasks) ==
    [i \in 1..Len(tasks) |-> [id |-> tasks[i].id, description |-> tasks[i].description]]

\* C12: across add, done, delete, remark and doneall the tasks that are in the
\* store before and after keep their id, their description and their order;
\* add only appends; a delete removes the task with the given id and nothing
\* else, the other tasks staying as they are.
C12_Frame ==
    [][(out'.op \in {"add", "done", "delete", "remark", "doneall"}
          /\ file.kind # "foreign") =>
        LET old == TasksOf(file)
            new == TasksOf(file')
            Stays(t) == t.id \in IdsOf(file) \cap IdsOf(file')
            Other(t) == t.id # out'.id
        IN  /\ SelectSeq(Identity(old), Stays) = SelectSeq(Identity(new), Stays)
            /\ out'.op = "add" => SubSeq(new, 1, Len(old)) = old
            /\ out'.op \in {"done", "remark", "doneall"} => Identity(new) = Identity(old)
            /\ out'.op = "delete" =>
                  /\ new = SelectSeq(old, Other)
                  /\ IdsOf(file') = IdsOf(file) \ {out'.id}
                  /\ out'.status = "deleted" => Len(new) = Len(old) - 1]_vars

\* delete has removed the first task and the task behind it keeps its id.
C12_Witness ==
    /\ out.op = "delete" /\ out.status = "deleted"
    /\ TasksOf(file) # <<>>
    /\ TasksOf(file)[1].id > out.id
    /\ TasksOf(file)[1].completed

\* C13: doneall leaves every task completed, reports the number of tasks that
\* were pending, changes nothing else of any task, and with none pending
\* reports nothing-pending and leaves the file as it is.
C13_DoneAll ==
    [][(out'.op = "doneall" /\ file.kind # "foreign") =>
        LET old == TasksOf(file)
            new == TasksOf(file')
        IN  /\ out'.count = Cardinality({i \in 1..Len(old) : ~old[i].completed})
            /\ new = [i \in 1..Len(old) |-> [old[i] EXCEPT !.completed = TRUE]]
            /\ \A i \in 1..Len(new) : new[i].completed
            /\ out'.status = IF out'.count = 0 THEN "nothing_pending" ELSE "all_completed"
            /\ out'.count = 0 => file' = file]_vars

\* doneall has completed the one pending task of a store of two, the other
\* one carrying a remark.
C13_Witness ==
    /\ out.op = "doneall" /\ out.status = "all_completed" /\ out.count = 1
    /\ Len(TasksOf(file)) = 2
    /\ \E i \in 1..2 : TasksOf(file)[i].remark # <<>>

\* The outcome of each command on a store that holds no task.
OnEmptyStore ==
    [add |-> "added", list |-> "list_empty", done |-> "not_found",
     delete |-> "not_found", remark |-> "not_found", doneall |-> "nothing_pending",
     clear |-> "already_empty"]

\* C14: when the file is absent or is not JSON, load_tasks returns the empty
\* list, and every command run on such a file ends as it ends on an empty
\* store, never by an exception: add saves a store of the one new task with
\* id 1, every other command leaves the file as it is.
C14_LoadNeverFails ==
    [][file.kind \in {"absent", "corrupt"} =>
        /\ load_tasks(file) = [foreign |-> FALSE, list |-> <<>>]
        /\ out'.status = OnEmptyStore[out'.op]
        /\ out' = Outcome(out'.op, [main(Args(out'.op, out'.id, <<out'.text>>, "all"),
                                         save_tasks(<<>>))
                                    EXCEPT !.id = out'.id])
        /\ Added(out') => out'.id = 1 /\ file' = save_tasks(<<Task(1, out'.text)>>)
        /\ ~Added(out') => file' = file]_vars

\* remark has run on a file that is not JSON and has left it as it is.
C14_Witness ==
    /\ file.kind = "corrupt"
    /\ out.op = "remark" /\ out.status = "not_found"

\* C15: a direct done, delete, remark or add that ends in an error outcome (no
\* task has the id, or the input is invalid) finishes with an exit status
\* other than 0, and not by an exception nobody catches.
C15_ErrorExitsNonZero ==
    (pc = "idle" /\ out.op \in {"done", "delete", "remark", "add"}
        /\ out.status \in {"not_found", "invalid_id"}) =>
        ExitStatus(out) # 0 /\ out.status # "crash"

\* C16 (as stated): save_tasks(load_tasks()) leaves the characters on disk as
\* they are, whether the file was written by save_tasks, is absent or is not
\* JSON.
C16_RoundTrip ==
    [][(out'.op = "resave" /\ file.kind \in {"tasks", "absent", "empty", "corrupt"}) =>
        disk' = disk]_vars

\* C16 (amended): save_tasks(load_tasks()) leaves a file that save_tasks has
\* written as it is; for an absent file and for a file that is not JSON it
\* writes the empty list, and a second save_tasks(load_tasks()) changes nothing
\* more.
C16_RoundTripOfSaved ==
    [][out'.op = "resave" =>
        /\ file.kind = "tasks" => disk' = disk /\ file' = file
        /\ file.kind \in {"absent", "empty", "corrupt"} =>
              disk' = DiskText(<<"[", "]">>) /\ file' = save_tasks(<<>>)
        /\ save_tasks_text(load_tasks_text(disk')) = disk']_vars

\* A store of two tasks, one with quote and backslash characters in its
\* description, has been loaded and saved again.
C16_Witness ==
    /\ out.op = "resave"
    /\ Len(TasksOf(file)) = 2
    /\ \E i \in 1..2 : TasksOf(file)[i].description = TextQuoted
    /\ \E i \in 1..2 : TasksOf(file)[i].completed /\ TasksOf(file)[i].remark # <<>>

\* Both concurrent invocations have ended.
RaceOver == pc = "race" /\ \A p \in 1..2 : procs.run[p].pc = "done"

\* C17: when each of the two concurrent invocations saves in one step (no step
\* of the other falls between its open and its write), the file they leave is
\* the list saved by the one that writes last, that is its command applied to
\* the file as it loaded it: what the other saved after that load is lost, and
\* two adds that loaded the same file leave only the last writer's new task.
C17_LastWriterWins ==
    (RaceOver /\ ~procs.torn /\ procs.writers # <<>>) =>
        LET w == procs.writers[Len(procs.writers)]
            last == procs.run[w]
            other == procs.run[3 - w]
        IN  /\ file = main(last.args, last.loaded).file
            /\ file.kind = "tasks"
            /\ (Len(procs.writers) = 2 /\ last.loaded = other.loaded
                  /\ last.result.status = "added" /\ other.result.status = "added") =>
                  TasksOf(file) = Append(TasksOf(last.loaded),
                                         Task(last.result.id, last.result.text))

\* Two adds have loaded the same store and saved one after the other: the
\* store holds one task more, that of the add which wrote last.
C17_Witness ==
    /\ RaceOver /\ ~procs.torn
    /\ procs.writers = <<2, 1>>
    /\ procs.run[1].loaded = procs.run[2].loaded
    /\ procs.run[1].result.status = "added" /\ procs.run[2].result.status = "added"
    /\ procs.run[1].result.text # procs.run[2].result.text
    /\ Len(TasksOf(file)) = Len(TasksOf(procs.run[1].loaded)) + 1
    /\ TasksOf(file)[Len(TasksOf(file))].description = procs.run[1].result.text

RECURSIVE DropWord(_)
\* s without its first word.
DropWord(s) ==
    IF s = <<>> \/ IsSpace(Head(s)) THEN s ELSE DropWord(Tail(s))

\* The text of a sub-command that follows its second word, the id.
AfterId(cmd) == DropWord(LStrip(DropWord(LStrip(cmd))))

IsRemark(cmd) == OpName(Lower(SplitWords(cmd)[1])) = "remark"

\* C18: a remark sub-command of a batch stores as the remark the text that
\* follows the id, stripped of blanks and of quote characters at its ends,
\* whatever blanks separate the keyword, the id and the text; with no text
\* after the id it fails with the missing-text error and the file stays as
\* it is.
C18_RemarkText ==
    [][(pc = "batch" /\ IsRemark(Head(queue)) /\ Len(SplitWords(Head(queue))) >= 2
          /\ file.kind # "foreign") =>
        LET text == StripQuotes(Strip(AfterId(Head(queue))))
            i == FirstIndex(TasksOf(file), out'.id)
        IN  IF text = <<>> THEN out'.status = "index_error" /\ file' = file
            ELSE /\ out'.status \in {"remarked", "not_found", "invalid_id"}
                 /\ out'.status = "remarked" =>
                       /\ out'.text = text
                       /\ TasksOf(file') = [TasksOf(file) EXCEPT ![i].remark = text]]_vars

\* C19: the ids of the store increase strictly in store order, so the last
\* task has the largest id and the id add takes from it is the largest plus 1.
C19_IdsIncreasing ==
    LET tasks == TasksOf(file)
    IN  /\ \A i, j \in 1..Len(tasks) : i < j => tasks[i].id < tasks[j].id
        /\ tasks # <<>> =>
              /\ tasks[Len(tasks)].id = MaxOf(IdsOf(file))
              /\ NewId(tasks) = MaxOf(IdsOf(file)) + 1

\* A batch add after the delete of task 1: the store holds the ids 2 and 3.
C19_Witness ==
    /\ pc = "batch"
    /\ Added(out)
    /\ Len(TasksOf(file)) = 2
    /\ TasksOf(file)[1].id = 2 /\ TasksOf(file)[1].completed
    /\ TasksOf(file)[2].id = 3

\* The store holds a completed, or a pending, task with id k.
CompletedAt(f, k) ==
    \E i \in 1..Len(TasksOf(f)) : TasksOf(f)[i].id = k /\ TasksOf(f)[i].completed

PendingAt(f, k) ==
    \E i \in 1..Len(TasksOf(f)) : TasksOf(f)[i].id = k /\ ~TasksOf(f)[i].completed

\* C20 (as stated): once the store holds a completed task with id k, no later
\* store holds a pending task with id k.
C20_CompletedForever == \A k \in completedIds : ~PendingAt(file, k)

\* C20 (amended): no command turns a completed task into a pending one: after
\* every command a task that was completed is completed still or is no longer
\* in the store; and a pending task appears under an id that the store did not
\* hold only by an add that assigns that id.
C20_NoReopening ==
    [][\A k \in IdsOf(file) \cup IdsOf(file') :
          /\ CompletedAt(file, k) => ~PendingAt(file', k)
          /\ (k \notin IdsOf(file) /\ PendingAt(file', k)) =>
                Added(out') /\ out'.id = k]_vars

\* remark has annotated a completed task, which is completed still.
C20_Witness ==
    /\ out.op = "remark" /\ out.status = "remarked"
    /\ out.text # <<>>
    /\ CompletedAt(file, out.id)

====
